---- MODULE Spec2Model ----
(***************************************************************************)
(* MotoBot: the PDF ingestion pipeline of src/main.py and its components.  *)
(*                                                                         *)
(*   SpecMeta  PDFLoader.extract_metadata over a family of file names      *)
(*   Spec      MotoBot.process_all_pdfs: batches run by pool tasks, each   *)
(*             on its own pickled copy of the MotoBot object               *)
(*   SpecCache repeated MotoBot.process_pdf calls of one object against    *)
(*             the on-disk cache, with the files changing in between       *)
(*                                                                         *)
(* Strings are TLA+ strings; Len, \o and SubSeq act on them character by   *)
(* character, so str.replace, `in` and re.search are computed as Python    *)
(* computes them.                                                          *)
(***************************************************************************)
EXTENDS Integers, Sequences, FiniteSets, TLC

VARIABLES
    m_pc,        \* extract_metadata: position in the function
    m_name,      \* extract_metadata: the argument pdf_name
    m_cleaned,   \* extract_metadata: the local cleaned_name
    m_family,    \* extract_metadata: the local family
    m_result,    \* extract_metadata: the returned PDFMetadata
    pdf_files,   \* list(self.lib_path.glob("*.pdf")): the corpus, as paths
    file_ver,    \* the content version of each file on disk
    cache_enabled, \* Config.CACHE_ENABLED
    cache,       \* the cache directory: cache path -> pickled PDFDocument
    images,      \* the image files written: [path, source, task]
    bot,         \* the orchestrating process's MotoBot: stats, grouped_family
    pc,          \* process_all_pdfs: position of the orchestrating process
    task,        \* one pool task per batch: status, files handled, its MotoBot copy
    collected,   \* the futures the as_completed loop has taken
    faults_left, \* how many more failures the environment may inject
    calls,       \* per path, the last process_pdf call: what failed, what came back
    stats_file,  \* the statistics file _save_processing_stats wrote
    n_calls,     \* how many direct process_pdf calls the caller has made
    fn_pc,       \* a stage function called on its own: which one, and how far it is
    fn_args,     \* ... its arguments
    fn_ret       \* ... what it returned

metaVars == <<m_pc, m_name, m_cleaned, m_family, m_result>>

runVars == <<pdf_files, file_ver, cache_enabled, cache, images, bot, pc, task,
             collected, faults_left, calls, stats_file, n_calls>>

fnVars == <<fn_pc, fn_args, fn_ret>>

vars == <<metaVars, runVars, fnVars>>

\* Python's None (a value no string of the model equals).
None == "<None>"

\* str(v) as an f-string formats it.
Str(v) == IF v = None THEN "None" ELSE v

-----------------------------------------------------------------------------
(* Python string primitives *)

\* s[i-1:].startswith(p)
StartsWithAt(s, i, p) ==
    /\ i + Len(p) - 1 <= Len(s)
    /\ SubSeq(s, i, i + Len(p) - 1) = p

\* p in s
Contains(s, p) == \E i \in 1..Len(s) : StartsWithAt(s, i, p)

RECURSIVE RemoveFrom(_, _, _)
\* s[i-1:].replace(p, ''): the non-overlapping occurrences, left to right
RemoveFrom(s, i, p) ==
    IF i > Len(s) THEN ""
    ELSE IF StartsWithAt(s, i, p) THEN RemoveFrom(s, i + Len(p), p)
    ELSE SubSeq(s, i, i) \o RemoveFrom(s, i + 1, p)

\* s.replace(p, '')
Remove(s, p) == RemoveFrom(s, 1, p)

\* str.isspace() of one character
IsSpace(c) == c \in {" ", "\n", "\t"}

RECURSIVE LStrip(_)
LStrip(s) ==
    IF Len(s) > 0 /\ IsSpace(SubSeq(s, 1, 1)) THEN LStrip(SubSeq(s, 2, Len(s))) ELSE s

RECURSIVE RStrip(_)
RStrip(s) ==
    IF Len(s) > 0 /\ IsSpace(SubSeq(s, Len(s), Len(s)))
    THEN RStrip(SubSeq(s, 1, Len(s) - 1)) ELSE s

\* s.strip()
Strip(s) == RStrip(LStrip(s))

Digits == <<"0", "1", "2", "3", "4", "5", "6", "7", "8", "9">>

IsDigit(c) == \E d \in 1..Len(Digits) : Digits[d] = c

\* int(c) of one digit character
DigitVal(c) == (CHOOSE d \in 1..Len(Digits) : Digits[d] = c) - 1

\* str(n) of a small non-negative int
IntStr(n) == IF n < 10 THEN Digits[n + 1] ELSE Digits[(n \div 10) + 1] \o Digits[(n % 10) + 1]

-----------------------------------------------------------------------------
(* PDFLoader.extract_metadata *)

ducati_families ==
    << "DesertX", "Diavel", "Hypermotard", "Monster", "Multistrada",
       "Off-Road", "Panigale", "Scrambler", "Streetfighter",
       "Supersport", "Superbike", "XDiavel" >>

name_cleanup_patterns ==
    << "OM", "_", ".pdf", "-", "EN", "ED00", "ED01", "ED02", "ED03",
       "Rev01", "Rev02" >>

RECURSIVE CleanFrom(_, _)
\* the loop over the cleanup patterns, from pattern k on
CleanFrom(s, k) ==
    IF k > Len(name_cleanup_patterns) THEN s
    ELSE CleanFrom(Remove(s, name_cleanup_patterns[k]), k + 1)

\* cleaned_name after the cleanup loop and strip()
CleanName(pdf_name) == Strip(CleanFrom(pdf_name, 1))

\* A mutant: the longest family name that occurs in cleaned_name is taken.
FindFamily_Longest(cleaned_name) ==
    IF \E k \in 1..Len(ducati_families) : Contains(cleaned_name, ducati_families[k])
    THEN ducati_families[CHOOSE k \in 1..Len(ducati_families) :
            /\ Contains(cleaned_name, ducati_families[k])
            /\ \A j \in 1..Len(ducati_families) :
                  Contains(cleaned_name, ducati_families[j]) =>
                      \/ Len(ducati_families[j]) < Len(ducati_families[k])
                      \/ (Len(ducati_families[j]) = Len(ducati_families[k]) /\ k <= j)]
    ELSE None

\* the first family of the list that occurs in cleaned_name, or None
FindFamily(cleaned_name) ==
    IF \E k \in 1..Len(ducati_families) : Contains(cleaned_name, ducati_families[k])
    THEN ducati_families[CHOOSE k \in 1..Len(ducati_families) :
            /\ Contains(cleaned_name, ducati_families[k])
            /\ \A j \in 1..(k - 1) : ~Contains(cleaned_name, ducati_families[j])]
    ELSE None

\* re.search(r'MY([0-9][0-9])', s): does position i start a match
YearMatchAt(s, i) ==
    /\ i + 3 <= Len(s)
    /\ SubSeq(s, i, i + 1) = "MY"
    /\ IsDigit(SubSeq(s, i + 2, i + 2))
    /\ IsDigit(SubSeq(s, i + 3, i + 3))

\* the start of the leftmost match, 0 when there is none
YearMatch(s) ==
    IF \E i \in 1..Len(s) : YearMatchAt(s, i)
    THEN CHOOSE i \in 1..Len(s) :
            /\ YearMatchAt(s, i)
            /\ \A j \in 1..(i - 1) : ~YearMatchAt(s, j)
    ELSE 0

\* the century cut of the two-digit year
CenturyCut == 50

\* year = f"19{year_str}" if int(year_str) > 50 else f"20{year_str}"
YearOf(year_str) ==
    IF DigitVal(SubSeq(year_str, 1, 1)) * 10 + DigitVal(SubSeq(year_str, 2, 2)) > CenturyCut
    THEN "19" \o year_str ELSE "20" \o year_str

PDFMetadata(family, year, model_name, original_name) ==
    [family |-> family, year |-> year, model_name |-> model_name,
     original_name |-> original_name]

\* A mutant: the year is extracted before the family is tested.
MetadataOf_YearFirst(cleaned_name, family, pdf_name) ==
    LET i == YearMatch(cleaned_name) IN
    IF i = 0 THEN PDFMetadata(family, None, cleaned_name, pdf_name)
    ELSE PDFMetadata(family, YearOf(SubSeq(cleaned_name, i + 2, i + 3)),
                     Strip(Remove(cleaned_name, SubSeq(cleaned_name, i, i + 3))), pdf_name)

\* lines 199-216: the PDFMetadata returned once family is known
MetadataOf(cleaned_name, family, pdf_name) ==
    IF family = None THEN PDFMetadata(None, None, cleaned_name, pdf_name)
    ELSE LET i == YearMatch(cleaned_name) IN
         IF i = 0 THEN PDFMetadata(family, None, cleaned_name, pdf_name)
         ELSE PDFMetadata(family, YearOf(SubSeq(cleaned_name, i + 2, i + 3)),
                          Strip(Remove(cleaned_name, SubSeq(cleaned_name, i, i + 3))),
                          pdf_name)

\* extract_metadata(pdf_name) for a str argument
extract_metadata(pdf_name) ==
    MetadataOf(CleanName(pdf_name), FindFamily(CleanName(pdf_name)), pdf_name)

-----------------------------------------------------------------------------
(* The corpus *)

\* Config.LIB_PATH
LibPath == "/lib"

\* the PDF files the library directory can hold
Pool ==
    << "Monster_MY23_EN.pdf", "XDiavel_MY16_EN.pdf", "Monster-MY23_ED01.pdf",
       "Manual_MY99_EN.pdf", "Off-Road_MY51.pdf" >>

\* the corpus holds the first n files of Pool, n <= MaxFiles
MaxFiles == 3

\* Config.BATCH_SIZE and Config.MAX_WORKERS, scaled to the corpus
BatchSize == 2
MaxWorkers == 2

\* the failures the environment may inject in one run
MaxFaults == 1

\* pages of a file at content version 0; version v has BasePages + v pages
BasePages == 2

\* how often a file is replaced in place
MaxVersion == 1

\* how many process_pdf calls the direct caller of SpecCache makes
MaxCalls == 2

FilePath(name) == LibPath \o "/" \o name

\* Path.name
FileName(path) == SubSeq(path, Len(LibPath) + 2, Len(path))

PoolPaths == {FilePath(Pool[i]) : i \in 1..Len(Pool)}

\* len(pdf_file): the page count of the file as it is on disk
NumPages(path, ver) == BasePages + ver

\* pdf_file.get_toc(), as the title -> page dict extract_toc builds from it
TocOf(path) == << [heading |-> "Intro", page |-> 1], [heading |-> "Specs", page |-> 2] >>

\* pypdf_file.pages[i].extract_text()
PageText(path, ver, p) == "Page " \o IntStr(p) \o " v" \o IntStr(ver) \o "."

-----------------------------------------------------------------------------
(* The cache *)

\* hashlib.md5(str(file_path).encode()).hexdigest()
FileHash(path) ==
    CASE path = "/lib/Monster_MY23_EN.pdf"   -> "ae097e52c8fb70122c758ca568c54a16"
      [] path = "/lib/XDiavel_MY16_EN.pdf"   -> "f5a05d9c05b2b39d4851fd4d854ac1cb"
      [] path = "/lib/Monster-MY23_ED01.pdf" -> "5c536731855e81b1bc0e1a81a13ca474"
      [] path = "/lib/Manual_MY99_EN.pdf"    -> "fc46626e73b8d817e4c1f1e21385f566"
      [] path = "/lib/Off-Road_MY51.pdf"     -> "970c6040cf1e6532d549fa6c81e5eb82"

\* _get_cache_path, for every file of the pool
CachePaths == [q \in PoolPaths |-> "cache/" \o FileHash(q) \o ".cache"]

CachePath(path) == CachePaths[path]

\* no file at a cache path
NoEntry == [absent |-> TRUE]

-----------------------------------------------------------------------------
(* The stages of the per-file pipeline.  F is the set of operations that    *)
(* fail in this call (an input of the call).                                *)

Max(a, b) == IF a >= b THEN a ELSE b
Min(a, b) == IF a <= b THEN a ELSE b

\* PDFLoader.extract_toc: a failure of get_toc() is logged and {} returned
extract_toc(path, F) == IF "toc" \in F THEN << >> ELSE TocOf(path)

\* PDFLoader.extract_page_content: a failure is logged and {} returned (a
\* failure of one page leaves "" for that page); never raises
extract_page_content(path, ver, F) ==
    IF "page_content" \in F THEN << >>
    ELSE [p \in 1..NumPages(path, ver) |-> PageText(path, ver, p)]

\* TextCleaner.clean_content: page by page; the cleaning functions are an
\* external package, of which the initial strip() is kept
clean_content(content) ==
    [p \in DOMAIN content |-> IF content[p] = "" THEN "" ELSE Strip(content[p])]

RECURSIVE InsertByPage(_, _)
InsertByPage(sorted, e) ==
    IF sorted = << >> THEN << e >>
    ELSE IF e.page < Head(sorted).page THEN << e >> \o sorted
    ELSE << Head(sorted) >> \o InsertByPage(Tail(sorted), e)

RECURSIVE SortedToc(_)
\* sorted(toc_map.items(), key=lambda x: x[1]): stable, ascending page
SortedToc(toc) ==
    IF toc = << >> THEN << >>
    ELSE InsertByPage(SortedToc(SubSeq(toc, 1, Len(toc) - 1)), toc[Len(toc)])

RECURSIVE SectionText(_, _, _)
\* the text of pages a..b, each followed by a newline
SectionText(cleaned, a, b) ==
    IF a > b THEN ""
    ELSE (IF a \in DOMAIN cleaned THEN cleaned[a] ELSE "") \o "\n"
         \o SectionText(cleaned, a + 1, b)

PDFSection(heading, start_page, end_page, text, model, year, source_pdf) ==
    [kind |-> "PDFSection", heading |-> heading, start_page |-> start_page,
     end_page |-> end_page, text |-> text, model |-> model, year |-> year,
     source_pdf |-> source_pdf, drawings |-> << >>]

\* end_page of the i-th sorted TOC entry
EndPage(sorted_toc, i, cleaned) ==
    IF i + 1 <= Len(sorted_toc) THEN sorted_toc[i + 1].page - 1 ELSE Len(cleaned)

\* the validation: is the i-th entry kept
ValidRange(sorted_toc, i, cleaned) ==
    ~(sorted_toc[i].page < 1 \/ EndPage(sorted_toc, i, cleaned) > Len(cleaned))

RECURSIVE SectionsFrom(_, _, _, _, _, _)
SectionsFrom(sorted_toc, i, cleaned, year, model, pdf_name) ==
    IF i > Len(sorted_toc) THEN << >>
    ELSE (IF ValidRange(sorted_toc, i, cleaned)
          THEN << PDFSection(sorted_toc[i].heading, sorted_toc[i].page,
                             EndPage(sorted_toc, i, cleaned),
                             Strip(SectionText(cleaned, sorted_toc[i].page,
                                               EndPage(sorted_toc, i, cleaned))),
                             model, year, pdf_name) >>
          ELSE << >>)
         \o SectionsFrom(sorted_toc, i + 1, cleaned, year, model, pdf_name)

\* PDFLoader.organize_by_section; a failure inside is logged and [] returned
organize_by_section(toc_map, cleaned_content, year, model, pdf_name) ==
    IF toc_map = << >> THEN << >>
    ELSE SectionsFrom(SortedToc(toc_map), 1, cleaned_content, year, model, pdf_name)

RECURSIVE FirstSpace(_, _)
\* the index of the first whitespace character of s from i on, Len(s) + 1 if none
FirstSpace(s, i) ==
    IF i > Len(s) \/ IsSpace(SubSeq(s, i, i)) THEN i ELSE FirstSpace(s, i + 1)

RECURSIVE Split(_)
\* s.split(): the whitespace-separated tokens of s
Split(s) ==
    LET t == LStrip(s) IN
    IF t = "" THEN << >>
    ELSE << SubSeq(t, 1, FirstSpace(t, 1) - 1) >>
         \o Split(SubSeq(t, FirstSpace(t, 1), Len(t)))

RECURSIVE Join(_)
\* " ".join(tokens)
Join(tokens) ==
    IF tokens = << >> THEN ""
    ELSE IF Len(tokens) = 1 THEN tokens[1]
    ELSE tokens[1] \o " " \o Join(Tail(tokens))

\* s.endswith(('.', '!', '?'))
EndsSentence(s) == Len(s) > 0 /\ SubSeq(s, Len(s), Len(s)) \in {".", "!", "?"}

RECURSIVE SplitFinal(_)
\* the final '.', '!' or '?' of a token becomes a token of its own
SplitFinal(tokens) ==
    IF tokens = << >> THEN << >>
    ELSE (IF Len(tokens[1]) > 1 /\ EndsSentence(tokens[1])
          THEN << SubSeq(tokens[1], 1, Len(tokens[1]) - 1),
                  SubSeq(tokens[1], Len(tokens[1]), Len(tokens[1])) >>
          ELSE << tokens[1] >>)
         \o SplitFinal(Tail(tokens))

\* nltk word_tokenize(text), for plain words and sentence-final punctuation
word_tokenize(text) == SplitFinal(Split(text))

RECURSIVE Sentences(_, _)
\* the sentences of a token list: one ends with each token that ends in
\* '.', '!' or '?' and is followed by another token; cur is the open sentence
Sentences(tokens, cur) ==
    IF tokens = << >> THEN (IF cur = << >> THEN << >> ELSE << Join(cur) >>)
    ELSE IF EndsSentence(tokens[1]) /\ Len(tokens) > 1
         THEN << Join(Append(cur, tokens[1])) >> \o Sentences(Tail(tokens), << >>)
         ELSE Sentences(Tail(tokens), Append(cur, tokens[1]))

\* nltk sent_tokenize(text), for plain words and sentence-final punctuation
sent_tokenize(text) == Sentences(Split(text), << >>)

\* a TextChunker with its three settings (__init__, lines 25-27)
TextChunker(max_words, overlap_words, min_chunk_size) ==
    [max_words |-> max_words, overlap_words |-> overlap_words,
     min_chunk_size |-> min_chunk_size]

\* TextChunker._create_chunk
create_chunk(chunk_text, section_data, chunk_index, total_chunks) ==
    [chunk_text |-> chunk_text, heading |-> section_data.heading,
     start_page |-> section_data.start_page, end_page |-> section_data.end_page,
     model |-> section_data.model, year |-> section_data.year,
     source_pdf |-> section_data.source_pdf,
     word_count |-> Len(word_tokenize(chunk_text)),
     sentence_count |-> Len(sent_tokenize(chunk_text)),
     chunk_index |-> chunk_index, total_chunks |-> total_chunks]

\* lines 107-122: the text of the window that starts at start_idx
WindowText(self, words, start_idx) ==
    LET end_idx == Min(start_idx + self.max_words, Len(words))
        chunk_text == Join(SubSeq(words, start_idx + 1, end_idx))
        current_sentences == sent_tokenize(chunk_text)
    IN  IF end_idx < Len(words)
           /\ ~EndsSentence(current_sentences[Len(current_sentences)])
           /\ Len(current_sentences) > 1
        THEN Join(SubSeq(current_sentences, 1, Len(current_sentences) - 1))
        ELSE chunk_text

RECURSIVE ChunkLoop_AfterTrim(_, _, _, _, _)
\* A mutant: the next window starts overlap_words before the end of the
\* chunk as trimmed.
ChunkLoop_AfterTrim(self, section_data, words, start_idx, chunk_index) ==
    IF ~(start_idx < Len(words)) THEN << >>
    ELSE << create_chunk(WindowText(self, words, start_idx), section_data, chunk_index,
                         (Len(words) + self.max_words - 1) \div self.max_words) >>
         \o ChunkLoop_AfterTrim(self, section_data, words,
                start_idx + Max(1, Len(word_tokenize(WindowText(self, words, start_idx)))
                                     - self.overlap_words),
                chunk_index + 1)

RECURSIVE ChunkLoop_StepMaxWords(_, _, _, _, _)
\* A mutant: the next window starts where this one ended, without overlap.
ChunkLoop_StepMaxWords(self, section_data, words, start_idx, chunk_index) ==
    IF ~(start_idx < Len(words)) THEN << >>
    ELSE << create_chunk(WindowText(self, words, start_idx), section_data, chunk_index,
                         (Len(words) + self.max_words - 1) \div self.max_words) >>
         \o ChunkLoop_StepMaxWords(self, section_data, words,
                                   start_idx + self.max_words, chunk_index + 1)

RECURSIVE ChunkLoop(_, _, _, _, _)
\* lines 106-133: the while loop, from the window at start_idx on
ChunkLoop(self, section_data, words, start_idx, chunk_index) ==
    IF ~(start_idx < Len(words)) THEN << >>
    ELSE << create_chunk(WindowText(self, words, start_idx), section_data, chunk_index,
                         (Len(words) + self.max_words - 1) \div self.max_words) >>
         \o ChunkLoop(self, section_data, words,
                      start_idx + (self.max_words - self.overlap_words), chunk_index + 1)

\* TextChunker._chunk_section for a section given as a dict
chunk_section(self, section_data) ==
    IF section_data.text = "" \/ Len(Strip(section_data.text)) = 0 THEN << >>
    ELSE IF Len(word_tokenize(section_data.text)) < self.min_chunk_size
         THEN << create_chunk(section_data.text, section_data, 0, 1) >>
         ELSE ChunkLoop(self, section_data, word_tokenize(section_data.text), 0, 0)

\* section_data["text"] (chunking.py line 92) raises TypeError for a PDFSection
\* object, which is not subscriptable; _chunk_section logs it and re-raises
SubscriptRaises(section_data) == section_data.kind = "PDFSection"

\* what one section adds to all_chunks in TextChunker.chunk: nothing when
\* _chunk_section raised (lines 149-151)
SectionChunks(self, section) ==
    IF SubscriptRaises(section) THEN << >> ELSE chunk_section(self, section)

RECURSIVE chunk_BreakOnError(_, _)
\* A mutant: the section that fails ends the loop.
chunk_BreakOnError(self, content) ==
    IF content = << >> \/ SubscriptRaises(Head(content)) THEN << >>
    ELSE SectionChunks(self, Head(content)) \o chunk_BreakOnError(self, Tail(content))

RECURSIVE chunk(_, _)
\* TextChunker.chunk: the flat list over the sections, in order
chunk(self, content) ==
    IF content = << >> THEN << >>
    ELSE SectionChunks(self, Head(content)) \o chunk(self, Tail(content))

\* self.padding
Padding == 15

\* the rendered page and the one candidate _find_diagrams returns for it
RasterOf(path, page_num) == [w |-> 1200, h |-> 1600]
CandidateOf(path, page_num) == [x |-> 10, y |-> 300, w |-> 400, h |-> 300]

\* model_path / f"{model}_{year}_pg{page_num}_{count}.png"
ImagePath(model, year, page_num, count) ==
    "images/" \o Str(model) \o "/" \o Str(model) \o "_" \o Str(year) \o "_pg"
    \o IntStr(page_num) \o "_" \o IntStr(count) \o ".png"

\* ImageExtractor._extract_diagram, as the dict extract_diagram_from_pdf makes of it
DiagramDict(img, d, model, year, page_num, count) ==
    LET x_pad == Max(0, d.x - Padding)
        y_pad == Max(0, d.y - Padding)
    IN  [drawing_id |-> Str(model) \o "_" \o Str(year) \o "_diagram_pg"
                        \o IntStr(page_num) \o "_" \o IntStr(count),
         x |-> x_pad, y |-> y_pad,
         w |-> Min(img.w - x_pad, d.w + 2 * Padding),
         h |-> Min(img.h - y_pad, d.h + 2 * Padding),
         page_number |-> page_num,
         image_path |-> ImagePath(model, year, page_num, count),
         model |-> model, year |-> year,
         source_pdf |-> ImagePath(model, year, page_num, count)]

\* extract_diagrams_from_pdf over the pages 0 .. n-1 (enumerate(doc))
DiagramsOf(path, model, year, n) ==
    [k \in 1..n |-> DiagramDict(RasterOf(path, k - 1), CandidateOf(path, k - 1),
                                model, year, k - 1, 1)]

\* the page whose rendering fails when "diagrams" is in F: the last one
\* (the exception is re-raised, the images of the earlier pages stay on disk)
PagesRendered(n, F) == IF "diagrams" \in F THEN n - 1 ELSE n

\* does drawing belong to section (lines 242-247)
DrawingMatches(drawing, section) ==
    /\ drawing.model = section.model
    /\ drawing.year = section.year
    /\ drawing.source_pdf = section.source_pdf
    /\ section.start_page <= drawing.page_number
    /\ drawing.page_number <= section.end_page

MappedDrawing(drawing) ==
    [drawing_id |-> drawing.drawing_id, page_number |-> drawing.page_number,
     image_path |-> drawing.image_path, x |-> drawing.x, y |-> drawing.y,
     w |-> drawing.w, h |-> drawing.h]

RECURSIVE DrawingsFor(_, _)
DrawingsFor(section, drawings) ==
    IF drawings = << >> THEN << >>
    ELSE (IF DrawingMatches(Head(drawings), section)
          THEN << MappedDrawing(Head(drawings)) >> ELSE << >>)
         \o DrawingsFor(section, Tail(drawings))

\* PDFLoader.map_drawings_to_sections; a failure inside is logged and the
\* list returned as it is
map_drawings_to_sections(section_chunks, drawings, F) ==
    IF "mapping" \in F THEN section_chunks
    ELSE [i \in 1..Len(section_chunks) |->
            ("drawings" :> DrawingsFor(section_chunks[i], drawings)) @@ section_chunks[i]]

-----------------------------------------------------------------------------
(* MotoBot.process_pdf *)

ProcessingStats ==
    [total_files |-> 0, processed_files |-> 0, failed_files |-> 0,
     total_pages |-> 0, total_drawings |-> 0, errors |-> << >>]

\* A mutant: the document's family is taken from the model name.
PDFDocument_FamilyFromModel(family, year, model, content, drawings, file_path, error) ==
    [family |-> model, year |-> year, model |-> model, content |-> content,
     drawings |-> drawings, file_path |-> file_path, error |-> error]

PDFDocument(family, year, model, content, drawings, file_path, error) ==
    [family |-> family, year |-> year, model |-> model, content |-> content,
     drawings |-> drawings, file_path |-> file_path, error |-> error]

\* one entry of stats.errors (the timestamp is left out)
ErrorEntry(path, message) == [file |-> path, error |-> message]

\* the operations of one process_pdf call that can fail
CacheFaults == {"cache_path", "cache_exists", "cache_read", "cache_write"}
\* ... those whose exception reaches process_pdf's try block, in program order
RaiseOrder == << "open", "clean", "chunk", "diagrams" >>
\* ... and those the stage itself catches and degrades
SwallowedFaults == {"toc", "page_content", "organize", "mapping"}

RaisingFaults == {RaiseOrder[k] : k \in 1..Len(RaiseOrder)}
Faults == CacheFaults \cup RaisingFaults \cup SwallowedFaults

\* the first operation of the try block that raises, "none" if none does
FirstRaise(F) ==
    IF F \cap RaisingFaults = {} THEN "none"
    ELSE RaiseOrder[CHOOSE k \in 1..Len(RaiseOrder) :
            /\ RaiseOrder[k] \in F
            /\ \A j \in 1..(k - 1) : RaiseOrder[j] \notin F]

\* A mutant: the cache is never read.
LoadFromCache_Never(enabled, store, path, F) == [raises |-> FALSE, doc |-> NoEntry]

\* _load_from_cache: the cached document, NoEntry for None; raises when the
\* cache path cannot be computed or tested (lines 100-101 are outside the try)
LoadFromCache(enabled, store, path, F) ==
    IF ~enabled THEN [raises |-> FALSE, doc |-> NoEntry]
    ELSE IF "cache_path" \in F \/ "cache_exists" \in F
         THEN [raises |-> TRUE, doc |-> NoEntry]
    ELSE IF store[CachePath(path)] = NoEntry \/ "cache_read" \in F
         THEN [raises |-> FALSE, doc |-> NoEntry]
    ELSE [raises |-> FALSE, doc |-> store[CachePath(path)]]

\* _save_to_cache: the cache directory afterwards (a failed write is logged)
SaveToCache(enabled, store, doc, F) ==
    IF ~enabled \/ "cache_write" \in F THEN store
    ELSE [store EXCEPT ![CachePath(doc.file_path)] = doc]

\* what a process_pdf call gives back: the exception that escaped it or the
\* document returned, the object's statistics, the cache directory and the
\* image files written, and whether the cache answered / the pipeline ran
CallResult(escaped, doc, stats, store, written, hit, ran) ==
    [escaped |-> escaped, doc |-> doc, stats |-> stats, store |-> store,
     written |-> written, hit |-> hit, ran |-> ran]

\* A mutant: the except block of process_pdf re-raises.
OnStageError_Reraise(stats, store, path, fault, written) ==
    CallResult(TRUE, NoEntry, stats, store, written, FALSE, TRUE)

\* A mutant: the error document is written to the cache.
OnStageError_Cached(stats, store, path, fault, written) ==
    CallResult(FALSE,
               PDFDocument("", "", "", << >>, << >>, path,
                           "Error processing " \o FileName(path) \o ": " \o fault),
               [stats EXCEPT !.errors = Append(@, ErrorEntry(path, fault))],
               [store EXCEPT ![CachePath(path)] =
                   PDFDocument("", "", "", << >>, << >>, path,
                               "Error processing " \o FileName(path) \o ": " \o fault)],
               written, FALSE, TRUE)

\* lines 203-220: the exception of a stage is recorded and an error document returned
OnStageError(stats, store, path, fault, written) ==
    CallResult(FALSE,
               PDFDocument("", "", "", << >>, << >>, path,
                           "Error processing " \o FileName(path) \o ": " \o fault),
               [stats EXCEPT !.errors = Append(@, ErrorEntry(path, fault))],
               store, written, FALSE, TRUE)

\* the largest max_words a chunker is given
MaxChunkWords == 4
\* the largest min_chunk_size a chunker is given
MaxMinChunk == 3
\* how many tokens the text of a section has at most
MaxSectionWords == 6

\* self.text_chunker of a MotoBot (__init__, line 57)
PipelineChunker == TextChunker(MaxChunkWords, 1, MaxMinChunk)

\* self.pdf_loader.extract_metadata(file_path.name), for every file of the pool
Metadata == [q \in PoolPaths |-> extract_metadata(FileName(q))]

\* lines 155-201: the try block, for a file with n pages
Pipeline(stats, enabled, store, path, ver, F) ==
    LET metadata == Metadata[path]
        n == NumPages(path, ver)
        r == FirstRaise(F)
        table_of_contents == extract_toc(path, F)
        content == extract_page_content(path, ver, F)
        stats1 == IF r = "open" THEN stats
                  ELSE [stats EXCEPT !.total_pages = @ + n]
        cleaned_content == clean_content(content)
        organized_content ==
            IF "organize" \in F THEN << >>
            ELSE organize_by_section(table_of_contents, cleaned_content,
                                     metadata.year, metadata.model_name, path)
        chunked_content == chunk(PipelineChunker, organized_content)
        drawings == DiagramsOf(path, metadata.model_name, metadata.year, n)
        written == IF r \in {"none", "diagrams"}
                   THEN {drawings[k].image_path : k \in 1..PagesRendered(n, F)}
                   ELSE {}
        mapped_drawings == map_drawings_to_sections(chunked_content, drawings, F)
        result == PDFDocument(metadata.family, metadata.year, metadata.model_name,
                              chunked_content, mapped_drawings, path, None)
    IN  IF r # "none" THEN OnStageError(stats1, store, path, r, written)
        ELSE CallResult(FALSE, result,
                        [stats1 EXCEPT !.total_drawings = @ + Len(drawings)],
                        SaveToCache(enabled, store, result, F), written, FALSE, TRUE)

\* process_pdf(file_path) of an object whose statistics are stats
ProcessPdf(stats, enabled, store, path, ver, F) ==
    LET cached_doc == LoadFromCache(enabled, store, path, F)
    IN  IF cached_doc.raises
        THEN CallResult(TRUE, NoEntry, stats, store, {}, FALSE, FALSE)
        ELSE IF cached_doc.doc # NoEntry
        THEN CallResult(FALSE, cached_doc.doc, stats, store, {}, TRUE, FALSE)
        ELSE Pipeline(stats, enabled, store, path, ver, F)

\* the exception message of an escaped call: the cache operation that failed
EscapedMessage(F) == IF "cache_path" \in F THEN "cache_path" ELSE "cache_exists"

\* no process_pdf call for a path yet
NoCall == [called |-> FALSE]

\* the record kept of a call made with statistics stats and cache directory
\* store: what failed, the cache entry found before the call, what came back,
\* and what the call changed
CallRecord(F, stats, store, path, r) ==
    [called |-> TRUE, F |-> F, prior |-> store[CachePath(path)],
     escaped |-> r.escaped, doc |-> r.doc, hit |-> r.hit, ran |-> r.ran,
     wrote |-> r.store # store, counted |-> r.stats # stats,
     drew |-> r.written # {}]

RECURSIVE FaultSetsUpTo(_)
FaultSetsUpTo(k) ==
    IF k = 0 THEN {{}}
    ELSE FaultSetsUpTo(k - 1) \cup {S \cup {f} : S \in FaultSetsUpTo(k - 1), f \in Faults}

FaultSetTable == [k \in 0..MaxFaults |-> FaultSetsUpTo(k)]

\* the sets of at most k failing operations
FaultSets(k) == FaultSetTable[k]

-----------------------------------------------------------------------------
(* MotoBot.process_batch, one file per step, in the pool task b *)

\* grouped_family after lines 234-236
GroupedAdd(grouped_family, family, drawings) ==
    IF family \in DOMAIN grouped_family
    THEN [grouped_family EXCEPT ![family] = @ \o drawings]
    ELSE grouped_family @@ (family :> drawings)

\* A mutant: the handler of process_batch counts the file and records nothing.
AfterFile_NoErrorEntry(self, path, F, r) ==
    IF r.escaped
    THEN [self EXCEPT !.stats = [r.stats EXCEPT !.failed_files = @ + 1]]
    ELSE IF r.doc.error # None
    THEN [self EXCEPT !.stats = [r.stats EXCEPT !.failed_files = @ + 1]]
    ELSE [stats |-> [r.stats EXCEPT !.processed_files = @ + 1],
          grouped_family |-> GroupedAdd(self.grouped_family, r.doc.family,
                                        r.doc.drawings)]

\* the task's MotoBot after the loop body for one file, r being what
\* process_pdf did (its statistics already hold total_files + 1)
AfterFile(self, path, F, r) ==
    IF r.escaped
    THEN [self EXCEPT !.stats =
            [r.stats EXCEPT !.failed_files = @ + 1,
                            !.errors = Append(@, ErrorEntry(path, EscapedMessage(F)))]]
    ELSE IF r.doc.error # None
    THEN [self EXCEPT !.stats = [r.stats EXCEPT !.failed_files = @ + 1]]
    ELSE [stats |-> [r.stats EXCEPT !.processed_files = @ + 1],
          grouped_family |-> GroupedAdd(self.grouped_family, r.doc.family,
                                        r.doc.drawings)]

\* an image file on disk: who wrote it, and which other tasks ran meanwhile
ImageFile(image_path, source, b, peers) ==
    [path |-> image_path, source |-> source, task |-> b, peers |-> peers]

RunningPeers(b) == {c \in DOMAIN task : c # b /\ task[c].status = "running"}

CountedIn(stats) == [stats EXCEPT !.total_files = @ + 1]

ProcessFile(b, F) ==
    /\ pc = "joining"
    /\ task[b].status = "running"
    /\ task[b].idx < Len(task[b].files)
    /\ LET path == task[b].files[task[b].idx + 1]
           stats == CountedIn(task[b].self.stats)
           r == ProcessPdf(stats, cache_enabled, cache, path, file_ver[path], F)
       IN  /\ task' = [task EXCEPT ![b].idx = @ + 1,
                                   ![b].self = AfterFile(task[b].self, path, F, r)]
           /\ cache' = r.store
           /\ images' = images \cup
                  {ImageFile(ip, path, b, RunningPeers(b)) : ip \in r.written}
           /\ calls' = [calls EXCEPT ![path] = CallRecord(F, stats, cache, path, r)]
    /\ faults_left' = faults_left - Cardinality(F)
    /\ UNCHANGED <<metaVars, fnVars, pdf_files, file_ver, cache_enabled, bot, pc, collected,
                   stats_file, n_calls>>

\* the loop is over: the task returns None and its future completes
TaskReturn(b) ==
    /\ pc = "joining"
    /\ task[b].status = "running"
    /\ task[b].idx = Len(task[b].files)
    /\ task' = [task EXCEPT ![b].status = "done"]
    /\ UNCHANGED <<metaVars, fnVars, pdf_files, file_ver, cache_enabled, cache, images, bot, pc,
                   collected, faults_left, calls, stats_file, n_calls>>

\* a pool worker takes a pending task
TaskStart(b) ==
    /\ pc = "joining"
    /\ task[b].status = "pending"
    /\ Cardinality({c \in DOMAIN task : task[c].status = "running"}) < MaxWorkers
    /\ task' = [task EXCEPT ![b].status = "running"]
    /\ UNCHANGED <<metaVars, fnVars, pdf_files, file_ver, cache_enabled, cache, images, bot, pc,
                   collected, faults_left, calls, stats_file, n_calls>>

\* the task ends with an exception outside the per-file handler of
\* process_batch; the pool sets it on the task's future
TaskRaise(b) ==
    /\ pc = "joining"
    /\ task[b].status \in {"pending", "running"}
    /\ faults_left > 0
    /\ faults_left' = faults_left - 1
    /\ task' = [task EXCEPT ![b].status = "raised"]
    /\ UNCHANGED <<metaVars, fnVars, pdf_files, file_ver, cache_enabled, cache, images, bot, pc,
                   collected, calls, stats_file, n_calls>>

-----------------------------------------------------------------------------
(* MotoBot.process_all_pdfs, in the orchestrating process *)

\* lines 259-262: the k-th batch
BatchOf(files, k) ==
    SubSeq(files, (k - 1) * BatchSize + 1, Min(k * BatchSize, Len(files)))

NumBatches(files) == (Len(files) + BatchSize - 1) \div BatchSize

\* executor.submit(self.process_batch, batch): the task works on a pickled
\* copy of self, and returns None
Submitted(self, batch) == [status |-> "pending", idx |-> 0, files |-> batch, self |-> self]

\* lines 253-256: no file, nothing to do
EmptyReturn ==
    /\ pc = "start"
    /\ pdf_files = << >>
    /\ pc' = "done"
    /\ UNCHANGED <<metaVars, fnVars, pdf_files, file_ver, cache_enabled, cache, images, bot, task,
                   collected, faults_left, calls, stats_file, n_calls>>

\* lines 253-268
SubmitBatches ==
    /\ pc = "start"
    /\ pdf_files # << >>
    /\ task' = [k \in 1..NumBatches(pdf_files) |-> Submitted(bot, BatchOf(pdf_files, k))]
    /\ pc' = "joining"
    /\ UNCHANGED <<metaVars, fnVars, pdf_files, file_ver, cache_enabled, cache, images, bot,
                   collected, faults_left, calls, stats_file, n_calls>>

\* A mutant: future.result() is not guarded.
AfterResult_Unguarded(status) == IF status = "raised" THEN "raised" ELSE "joining"

\* lines 270-274: where the loop stands after future.result() of a future
\* that ended with status
AfterResult(status) == "joining"

\* one iteration of the as_completed loop
Collect(b) ==
    /\ pc = "joining"
    /\ b \notin collected
    /\ task[b].status \in {"done", "raised"}
    /\ collected' = collected \cup {b}
    /\ pc' = AfterResult(task[b].status)
    /\ UNCHANGED <<metaVars, fnVars, pdf_files, file_ver, cache_enabled, cache, images, bot, task,
                   faults_left, calls, stats_file, n_calls>>

\* lines 275-280: the executor is shut down (it waits for every task),
\* and the statistics of self are saved
Finish ==
    /\ pc = "joining"
    /\ collected = DOMAIN task
    /\ \A b \in DOMAIN task : task[b].status \in {"done", "raised"}
    /\ stats_file' = bot.stats
    /\ pc' = "done"
    /\ UNCHANGED <<metaVars, fnVars, pdf_files, file_ver, cache_enabled, cache, images, bot, task,
                   collected, faults_left, calls, n_calls>>

MetaIdle ==
    /\ m_pc = "idle" /\ m_name = None /\ m_cleaned = None /\ m_family = None
    /\ m_result = None

\* no stage function is being called on its own
FnIdle == fn_pc = "idle" /\ fn_args = None /\ fn_ret = None

\* a MotoBot as __init__ leaves it
MotoBot == [stats |-> ProcessingStats, grouped_family |-> << >>]

Init ==
    /\ MetaIdle
    /\ FnIdle
    /\ \E n \in 0..MaxFiles : pdf_files = [i \in 1..n |-> FilePath(Pool[i])]
    /\ file_ver = [q \in PoolPaths |-> 0]
    /\ cache_enabled = TRUE
    /\ cache = [c \in {CachePath(q) : q \in PoolPaths} |-> NoEntry]
    /\ images = {}
    /\ bot = MotoBot
    /\ pc = "start"
    /\ task = << >>
    /\ collected = {}
    /\ faults_left = MaxFaults
    /\ calls = [q \in PoolPaths |-> NoCall]
    /\ stats_file = None
    /\ n_calls = 0

Next ==
    \/ EmptyReturn
    \/ SubmitBatches
    \/ \E b \in DOMAIN task : TaskStart(b)
    \/ \E b \in DOMAIN task : \E F \in FaultSets(faults_left) : ProcessFile(b, F)
    \/ \E b \in DOMAIN task : TaskReturn(b)
    \/ \E b \in DOMAIN task : TaskRaise(b)
    \/ \E b \in DOMAIN task : Collect(b)
    \/ Finish

Spec == Init /\ [][Next]_vars

-----------------------------------------------------------------------------
(* SpecCache: one MotoBot whose process_pdf is called directly, again and   *)
(* again, while the files are replaced in place                             *)

DirectCall(path, F) ==
    /\ pc = "direct"
    /\ n_calls < MaxCalls
    /\ LET r == ProcessPdf(bot.stats, cache_enabled, cache, path, file_ver[path], F)
       IN  /\ bot' = [bot EXCEPT !.stats = r.stats]
           /\ cache' = r.store
           /\ images' = images \cup {ImageFile(ip, path, 0, {}) : ip \in r.written}
           /\ calls' = [calls EXCEPT ![path] = CallRecord(F, bot.stats, cache, path, r)]
    /\ n_calls' = n_calls + 1
    /\ faults_left' = faults_left - Cardinality(F)
    /\ UNCHANGED <<metaVars, fnVars, pdf_files, file_ver, cache_enabled, pc, task, collected,
                   stats_file>>

\* the file at path is replaced by a new version
ModifyFile(path) ==
    /\ pc = "direct"
    /\ file_ver[path] < MaxVersion
    /\ file_ver' = [file_ver EXCEPT ![path] = @ + 1]
    /\ UNCHANGED <<metaVars, fnVars, pdf_files, cache_enabled, cache, images, bot, pc, task,
                   collected, faults_left, calls, stats_file, n_calls>>

InitCache ==
    /\ MetaIdle
    /\ FnIdle
    /\ pdf_files = << FilePath(Pool[1]) >>
    /\ file_ver = [q \in PoolPaths |-> 0]
    /\ cache_enabled \in BOOLEAN
    /\ cache = [c \in {CachePath(q) : q \in PoolPaths} |-> NoEntry]
    /\ images = {}
    /\ bot = MotoBot
    /\ pc = "direct"
    /\ task = << >>
    /\ collected = {}
    /\ faults_left = MaxFaults
    /\ calls = [q \in PoolPaths |-> NoCall]
    /\ stats_file = None
    /\ n_calls = 0

NextCache ==
    \/ \E i \in DOMAIN pdf_files : \E F \in FaultSets(faults_left) :
          DirectCall(pdf_files[i], F)
    \/ \E i \in DOMAIN pdf_files : ModifyFile(pdf_files[i])

SpecCache == InitCache /\ [][NextCache]_vars

-----------------------------------------------------------------------------
(* SpecMeta: extract_metadata, statement by statement, over file names      *)

MetaPrefixes == {"", "Ducati", "Panigale"}
MetaFamilies == {ducati_families[k] : k \in 1..Len(ducati_families)} \cup {"", "Manual"}
MetaSeparators == {"", "_", "-", " "}
MetaYears == {"", "MY00", "MY23", "MY50", "MY51", "MY99"}
MetaSuffixes == {".pdf", "OM_EN.pdf", "_ED01_Rev02.pdf"}

MetaNames ==
    {a \o f \o s \o y \o x : a \in MetaPrefixes, f \in MetaFamilies,
                             s \in MetaSeparators, y \in MetaYears, x \in MetaSuffixes}

RunIdle ==
    /\ pdf_files = << >>
    /\ file_ver = [q \in PoolPaths |-> 0]
    /\ cache_enabled = TRUE
    /\ cache = [c \in {CachePath(q) : q \in PoolPaths} |-> NoEntry]
    /\ images = {}
    /\ bot = MotoBot
    /\ pc = "idle"
    /\ task = << >>
    /\ collected = {}
    /\ faults_left = 0
    /\ calls = [q \in PoolPaths |-> NoCall]
    /\ stats_file = None
    /\ n_calls = 0

\* lines 187-190
MetaClean ==
    /\ m_pc = "start"
    /\ m_name # None
    /\ m_cleaned' = CleanName(m_name)
    /\ m_pc' = "cleaned"
    /\ UNCHANGED <<m_name, m_family, m_result, runVars, fnVars>>

\* lines 218-220: pdf_name is no str, replace() raises and the handler answers
MetaFallback ==
    /\ m_pc = "start"
    /\ m_name = None
    /\ m_result' = PDFMetadata(None, None, m_name, m_name)
    /\ m_pc' = "done"
    /\ UNCHANGED <<m_name, m_cleaned, m_family, runVars, fnVars>>

\* lines 193-197
MetaFindFamily ==
    /\ m_pc = "cleaned"
    /\ m_family' = FindFamily(m_cleaned)
    /\ m_pc' = "family"
    /\ UNCHANGED <<m_name, m_cleaned, m_result, runVars, fnVars>>

\* lines 199-216
MetaReturn ==
    /\ m_pc = "family"
    /\ m_result' = MetadataOf(m_cleaned, m_family, m_name)
    /\ m_pc' = "done"
    /\ UNCHANGED <<m_name, m_cleaned, m_family, runVars, fnVars>>

InitMeta ==
    /\ RunIdle
    /\ FnIdle
    /\ m_pc = "start"
    /\ m_name \in MetaNames \cup {None}
    /\ m_cleaned = None
    /\ m_family = None
    /\ m_result = None

NextMeta == MetaClean \/ MetaFallback \/ MetaFindFamily \/ MetaReturn

SpecMeta == InitMeta /\ [][NextMeta]_vars

-----------------------------------------------------------------------------
(* Properties *)

AllTasksDone == \A b \in DOMAIN task : task[b].status = "done"

RECURSIVE SumOver(_, _, _)
\* the sum of a statistics counter over the tasks 1..k
SumOver(field, tasks, k) ==
    IF k = 0 THEN 0 ELSE tasks[k].self.stats[field] + SumOver(field, tasks, k - 1)

RECURSIVE ErrorsOver(_, _)
\* the error entries of the tasks 1..k, batch after batch
ErrorsOver(tasks, k) ==
    IF k = 0 THEN << >> ELSE ErrorsOver(tasks, k - 1) \o tasks[k].self.stats.errors

SeqElems(q) == {q[i] : i \in DOMAIN q}

\* the statistics a fold of the tasks' partial statistics gives
MergedStats ==
    [total_files |-> SumOver("total_files", task, Len(task)),
     processed_files |-> SumOver("processed_files", task, Len(task)),
     failed_files |-> SumOver("failed_files", task, Len(task)),
     total_pages |-> SumOver("total_pages", task, Len(task)),
     total_drawings |-> SumOver("total_drawings", task, Len(task)),
     errors |-> ErrorsOver(task, Len(task))]

\* C1: after process_all_pdfs has returned for a corpus of N >= 1 files whose
\* batches all completed, the orchestrator's own statistics count every file
\* (total_files = N, processed_files + failed_files = N) and hold the error
\* entries of every batch.
C1_StatsMergedFromBatches ==
    (pc = "done" /\ Len(pdf_files) >= 1 /\ AllTasksDone) =>
        /\ bot.stats.total_files = Len(pdf_files)
        /\ bot.stats.processed_files + bot.stats.failed_files = Len(pdf_files)
        /\ Len(bot.stats.errors) = Len(ErrorsOver(task, Len(task)))
        /\ SeqElems(bot.stats.errors) = SeqElems(ErrorsOver(task, Len(task)))

\* the files of the corpus whose page-content extraction failed, and those
\* in whose processing nothing failed
PageFailed == {q \in SeqElems(pdf_files) : calls[q].called /\ calls[q].F = {"page_content"}}
Unfaulted == {q \in SeqElems(pdf_files) : calls[q].called /\ calls[q].F = {}}

\* the report of C2 read off the statistics st
OneFailedOfThree(st) ==
    /\ st.processed_files = 2
    /\ st.failed_files = 1
    /\ \A q \in PageFailed :
          Cardinality({i \in DOMAIN st.errors :
                          st.errors[i].file = q /\ st.errors[i].error # None}) = 1

\* C2: a corpus of 3 files of which exactly one fails during page-content
\* extraction ends with processed_files = 2, failed_files = 1 and one error
\* entry, with a message, for the failed file (in the orchestrator's
\* statistics, or at least in the fold of the batches' statistics).
C2_OneFailedOfThree ==
    (pc = "done" /\ Len(pdf_files) = 3 /\ AllTasksDone
        /\ Cardinality(PageFailed) = 1 /\ Cardinality(Unfaulted) = 2) =>
        (OneFailedOfThree(bot.stats) \/ OneFailedOfThree(MergedStats))

\* the entries of the task's error list that name path
EntriesFor(b, path) ==
    {i \in DOMAIN task[b].self.stats.errors : task[b].self.stats.errors[i].file = path}

\* the process_pdf call for path ran the pipeline and a stage raised in it
StageRaised(path) ==
    calls[path].called /\ calls[path].ran /\ FirstRaise(calls[path].F) # "none"

C4_AllBatchesAwaited ==
    /\ pc # "raised"
    /\ (pc = "done" /\ pdf_files # << >>) =>
          /\ Len(task) = NumBatches(pdf_files)
          /\ collected = DOMAIN task
          /\ \A b \in DOMAIN task :
                \/ task[b].status = "raised"
                \/ task[b].status = "done" /\ task[b].idx = Len(task[b].files)

\* C4 witness: the run returned, one future raised, another batch ran to its end.
C4_Witness ==
    /\ pc = "done"
    /\ \E b, c \in DOMAIN task :
          /\ task[b].status = "raised"
          /\ task[c].status = "done"
          /\ task[c].idx = Len(task[c].files)
          /\ task[c].idx >= 1

\* the operations of the cache lookup
LookupFaults == {"cache_path", "cache_exists", "cache_read"}

\* the call for path was answered with the stored document and did nothing else
ServedFromCache(path) ==
    /\ ~calls[path].escaped
    /\ calls[path].hit
    /\ calls[path].doc = calls[path].prior
    /\ ~calls[path].ran
    /\ ~calls[path].wrote
    /\ ~calls[path].counted
    /\ ~calls[path].drew
    /\ cache[CachePath(path)] = calls[path].prior

C6_CacheFailureNeverAborts ==
    \A q \in PoolPaths :
        (cache_enabled /\ calls[q].called /\ calls[q].F \cap CacheFaults # {}) =>
            /\ ~calls[q].escaped
            /\ (calls[q].F \cap LookupFaults # {} => calls[q].ran)
            /\ (FirstRaise(calls[q].F) = "none" => calls[q].doc.error = None)

\* C7: distinct input paths have distinct cache files, and no image file is
\* written for two distinct input documents handled by different tasks that
\* were running at the same time.
C7_ArtifactsDisjoint ==
    /\ \A q1, q2 \in PoolPaths : q1 # q2 => CachePath(q1) # CachePath(q2)
    /\ \A e1, e2 \in images :
          (e1.path = e2.path /\ e1.task # e2.task /\ e1.task \in e2.peers) =>
              e1.source = e2.source

\* the files of the corpus that process_pdf turned into a document without error
Succeeded ==
    {q \in SeqElems(pdf_files) :
        calls[q].called /\ ~calls[q].escaped /\ calls[q].doc.error = None}

\* C8: after process_all_pdfs, grouped_family of the orchestrator has the
\* family key of every successfully processed document and under it that
\* document's mapped drawings, and nothing else.
C8_FamilyIndexComplete ==
    (pc = "done" /\ pdf_files # << >> /\ AllTasksDone) =>
        /\ \A q \in Succeeded :
              /\ calls[q].doc.family \in DOMAIN bot.grouped_family
              /\ SeqElems(calls[q].doc.drawings)
                    \subseteq SeqElems(bot.grouped_family[calls[q].doc.family])
        /\ \A k \in DOMAIN bot.grouped_family :
              /\ \E q \in Succeeded : calls[q].doc.family = k
              /\ SeqElems(bot.grouped_family[k])
                    \subseteq UNION {SeqElems(calls[q].doc.drawings) : q \in Succeeded}

FamilySet == {ducati_families[k] : k \in 1..Len(ducati_families)}

\* the family names a file name spells out (not just as part of a longer one)
NamedFamilies(name) ==
    {f \in FamilySet :
        /\ Contains(name, f)
        /\ \A g \in FamilySet : (g # f /\ Contains(g, f)) => ~Contains(name, g)}

\* C9: for a file name that contains a known family name and a token MYxx,
\* extract_metadata returns that family, and the year 19xx if xx > 50,
\* 20xx otherwise.
C9_FamilyAndYear ==
    (m_pc = "done" /\ m_name # None /\ NamedFamilies(m_name) # {}
        /\ YearMatch(m_name) # 0) =>
        /\ m_result.family \in NamedFamilies(m_name)
        /\ m_result.year =
              YearOf(SubSeq(m_name, YearMatch(m_name) + 2, YearMatch(m_name) + 3))

\* C10: extract_metadata always returns: for a name in whose cleaned form no
\* known family occurs, family and year are None (also with a MYxx token),
\* model_name is the cleaned name and original_name the argument; an
\* argument that makes the body raise yields (None, None, arg, arg).
C10_NoFamilyNoYear ==
    /\ m_pc \in {"idle", "start", "cleaned", "family", "done"}
    /\ (m_pc = "done" /\ m_name # None
          /\ \A f \in FamilySet : ~Contains(m_cleaned, f)) =>
          m_result = PDFMetadata(None, None, m_cleaned, m_name)
    /\ (m_pc = "done" /\ m_name = None) =>
          m_result = PDFMetadata(None, None, m_name, m_name)
    /\ m_pc = "done" => m_result.original_name = m_name

\* C10 witness: a returned result for a cleaned name with a MYxx token and no family.
C10_Witness ==
    /\ m_pc = "done"
    /\ m_name # None
    /\ YearMatch(m_cleaned) # 0
    /\ \A f \in FamilySet : ~Contains(m_cleaned, f)
    /\ m_result.family = None

-----------------------------------------------------------------------------
(* organize_by_section called on its own, for every TOC of at most MaxToc   *)
(* headings and every page map of at most MaxDocPages pages.                *)

\* how many headings a TOC has at most
MaxToc == 3
\* the largest page number a heading can carry (0 is below the first page)
MaxTocPage == 4
\* how many pages the page map has at most
MaxDocPages == 3

\* the titles of the TOC entries, in the order the dict received them
TocHeadings == <<"Intro", "Specs", "Index", "Notes", "Annex">>

\* the toc_map dicts: title -> page number, in insertion order
TocMaps ==
    UNION {{[i \in 1..k |-> [heading |-> TocHeadings[i], page |-> f[i]]] :
                f \in [1..k -> 0..MaxTocPage]} : k \in 0..MaxToc}

\* the cleaned page maps: page number -> text, pages 1..n
PageMaps == {[p \in 1..n |-> "Page " \o IntStr(p) \o "."] : n \in 0..MaxDocPages}

\* the call organize_by_section(toc_map, cleaned_content, year, model, pdf_name)
SectionsCall ==
    /\ fn_pc = "organize_by_section"
    /\ fn_ret' = organize_by_section(fn_args.toc_map, fn_args.cleaned_content,
                                     fn_args.year, fn_args.model, fn_args.pdf_name)
    /\ fn_pc' = "returned"
    /\ UNCHANGED <<fn_args, metaVars, runVars>>

InitSections ==
    /\ RunIdle
    /\ MetaIdle
    /\ fn_pc = "organize_by_section"
    /\ \E t \in TocMaps, c \in PageMaps :
          fn_args = [toc_map |-> t, cleaned_content |-> c, year |-> "2023",
                     model |-> "Monster", pdf_name |-> FilePath(Pool[1])]
    /\ fn_ret = None

NextSections == SectionsCall

SpecSections == InitSections /\ [][NextSections]_vars

\* the pages of a section
PagesOf(section) == section.start_page .. section.end_page

\* C11: the sections organize_by_section returns are ordered by start_page,
\* each but the last ends on the page before the next returned section
\* starts, the last one ends on the last page of the page map, and no page
\* lies in two of them.
C11_SectionsContiguous ==
    fn_pc = "returned" =>
        LET r == fn_ret
            n == Len(fn_args.cleaned_content)
        IN  /\ \A i \in 1..(Len(r) - 1) :
                  /\ r[i].start_page <= r[i + 1].start_page
                  /\ r[i].end_page = r[i + 1].start_page - 1
            /\ r # << >> => r[Len(r)].end_page = n
            /\ \A i, j \in 1..Len(r) : i < j => PagesOf(r[i]) \cap PagesOf(r[j]) = {}

\* C12: every section organize_by_section returns has
\* 1 <= start_page <= end_page <= the number of pages of the page map.
C12_SectionBounds ==
    fn_pc = "returned" =>
        \A i \in 1..Len(fn_ret) :
            /\ 1 <= fn_ret[i].start_page
            /\ fn_ret[i].start_page <= fn_ret[i].end_page
            /\ fn_ret[i].end_page <= Len(fn_args.cleaned_content)

-----------------------------------------------------------------------------
(* TextChunker.chunk called on its own with one section given as a dict,    *)
(* for every chunker setting and every text of at most MaxSectionWords      *)
(* tokens.                                                                  *)

\* the words of a text, by position
WordAt == <<"check", "oil", "level", "then", "close", "cap", "now", "stop">>

RECURSIVE TokenLists(_)
\* the token lists of length k: words and full stops, no full stop first or
\* after another one
TokenLists(k) ==
    IF k = 0 THEN {<< >>}
    ELSE {Append(t, WordAt[k]) : t \in TokenLists(k - 1)}
         \cup {Append(t, ".") : t \in {u \in TokenLists(k - 1) :
                                          u # << >> /\ u[Len(u)] # "."}}

RECURSIVE Written(_)
\* a token list as it is written: a full stop follows its word directly
Written(tokens) ==
    IF tokens = << >> THEN ""
    ELSE IF Len(tokens) = 1 THEN tokens[1]
    ELSE IF tokens[2] = "." THEN tokens[1] \o Written(Tail(tokens))
    ELSE tokens[1] \o " " \o Written(Tail(tokens))

\* the section texts: written token lists, and a text of whitespace only
SectionTexts ==
    {Written(t) : t \in UNION {TokenLists(k) : k \in 0..MaxSectionWords}} \cup {" "}

\* the chunker settings: overlap_words < max_words
Chunkers ==
    {TextChunker(mw, ow, mc) :
        mw \in 2..MaxChunkWords, ow \in 0..(MaxChunkWords - 1), mc \in 1..MaxMinChunk}
    \ {c \in [max_words : 2..MaxChunkWords, overlap_words : 0..(MaxChunkWords - 1),
              min_chunk_size : 1..MaxMinChunk] : c.overlap_words >= c.max_words}

\* a section as the dict TextChunker expects
SectionDict(text) ==
    [kind |-> "dict", heading |-> "Intro", start_page |-> 1, end_page |-> 2,
     text |-> text, model |-> "Monster", year |-> "2023",
     source_pdf |-> FilePath(Pool[1])]

\* the call chunker.chunk([section])
ChunkCall ==
    /\ fn_pc = "chunk"
    /\ fn_ret' = chunk(fn_args.self, fn_args.content)
    /\ fn_pc' = "returned"
    /\ UNCHANGED <<fn_args, metaVars, runVars>>

InitChunk ==
    /\ RunIdle
    /\ MetaIdle
    /\ fn_pc = "chunk"
    /\ \E c \in Chunkers, t \in SectionTexts :
          fn_args = [self |-> c, content |-> << SectionDict(t) >>]
    /\ fn_ret = None

NextChunk == ChunkCall

SpecChunk == InitChunk /\ [][NextChunk]_vars

\* the text and the words of the section of the call
ArgText == fn_args.content[1].text
ArgWords == word_tokenize(ArgText)

\* the word positions (from 0) a chunk holds: its window starts
\* chunk_index * (max_words - overlap_words) words into the section
WordRange(self, c) ==
    LET start == c.chunk_index * (self.max_words - self.overlap_words)
    IN  start .. (start + c.word_count - 1)

\* C13: for a section with fewer words than min_chunk_size, an empty or
\* whitespace-only text included, chunk returns exactly one chunk, whose
\* chunk_text is the section text, with chunk_index 0 and total_chunks 1.
C13_ShortSectionOneChunk ==
    (fn_pc = "returned" /\ Len(ArgWords) < fn_args.self.min_chunk_size) =>
        /\ Len(fn_ret) = 1
        /\ fn_ret[1].chunk_text = ArgText
        /\ fn_ret[1].chunk_index = 0
        /\ fn_ret[1].total_chunks = 1

\* C14: for a section with at least min_chunk_size words, every word
\* position of the section lies in the word range of some returned chunk.
C14_ChunksCoverWords ==
    (fn_pc = "returned" /\ Len(ArgWords) >= fn_args.self.min_chunk_size) =>
        \A i \in 0..(Len(ArgWords) - 1) :
            \E k \in 1..Len(fn_ret) : i \in WordRange(fn_args.self, fn_ret[k])

\* C15: for a section with at least min_chunk_size words, every returned
\* chunk whose window stops before the end of the section (so it is not the
\* last chunk) ends with '.', '!' or '?'.
C15_ChunksEndAtSentenceEnd ==
    (fn_pc = "returned" /\ Len(ArgWords) >= fn_args.self.min_chunk_size) =>
        \A k \in 1..(Len(fn_ret) - 1) :
            (fn_ret[k].chunk_index * (fn_args.self.max_words - fn_args.self.overlap_words)
                + fn_args.self.max_words < Len(ArgWords)) =>
                EndsSentence(fn_ret[k].chunk_text)

-----------------------------------------------------------------------------
(* map_drawings_to_sections called on its own: on the sections              *)
(* organize_by_section returns and on the chunk lists TextChunker.chunk     *)
(* returns, which is what process_pdf passes (main.py line 183).            *)

\* how many drawings a call is given at most
MaxDrawings == 2

\* the record lists of the calls: section lists, and chunk lists of one section
RecordLists ==
    {organize_by_section(t, [p \in 1..MaxDocPages |-> "Page."], "2023", "Monster",
                         FilePath(Pool[1])) : t \in {u \in TocMaps : Len(u) <= 2}}
    \cup {chunk(TextChunker(2, 0, 1), << SectionDict(t) >>) : t \in SectionTexts}

\* a drawing dict as extract_diagram_from_pdf returns it, the k-th of a list
DrawingOn(k, page_number, source_pdf) ==
    [drawing_id |-> "Monster_2023_diagram_" \o IntStr(k), x |-> 0, y |-> 0,
     w |-> 400, h |-> 300, page_number |-> page_number,
     image_path |-> "images/Monster/" \o IntStr(k) \o ".png",
     model |-> "Monster", year |-> "2023", source_pdf |-> source_pdf]

\* the drawing lists of the calls: the source_pdf of the drawings is the
\* document's path or, as _extract_diagram sets it, the path of an image
DrawingLists ==
    UNION {{[k \in 1..n |-> DrawingOn(k, f[k], src)] :
                f \in [1..n -> 0..MaxTocPage],
                src \in {FilePath(Pool[1]), ImagePath("Monster", "2023", 0, 1)}} :
           n \in 1..MaxDrawings}

\* the call map_drawings_to_sections(section_chunks, drawings)
MapCall ==
    /\ fn_pc = "map_drawings_to_sections"
    /\ fn_ret' = map_drawings_to_sections(fn_args.section_chunks, fn_args.drawings, {})
    /\ fn_pc' = "returned"
    /\ UNCHANGED <<fn_args, metaVars, runVars>>

InitMap ==
    /\ RunIdle
    /\ MetaIdle
    /\ fn_pc = "map_drawings_to_sections"
    /\ \E r \in RecordLists, d \in DrawingLists :
          fn_args = [section_chunks |-> r, drawings |-> d]
    /\ fn_ret = None

NextMap == MapCall

SpecMap == InitMap /\ [][NextMap]_vars

\* the records of the result to which the drawing is attached
AttachedTo(records, drawing) ==
    {i \in 1..Len(records) :
        \E j \in 1..Len(records[i].drawings) :
            records[i].drawings[j].drawing_id = drawing.drawing_id}

\* C16: map_drawings_to_sections attaches each drawing to at most one of the
\* records it is given (sections or the chunks of a section), and to none
\* when its page_number lies in no record's page range.
C16_DrawingAttachedOnce ==
    fn_pc = "returned" =>
        \A k \in 1..Len(fn_args.drawings) :
            LET d == fn_args.drawings[k] IN
            /\ Cardinality(AttachedTo(fn_ret, d)) <= 1
            /\ (\A i \in 1..Len(fn_args.section_chunks) :
                    d.page_number \notin PagesOf(fn_args.section_chunks[i]))
                => AttachedTo(fn_ret, d) = {}

-----------------------------------------------------------------------------
(* Diagrams and sections in the per-file pipeline (Spec).                   *)

\* the files for which process_pdf ran the whole pipeline and nothing failed
RanClean ==
    {q \in PoolPaths : calls[q].called /\ calls[q].ran /\ calls[q].F = {}
                          /\ ~calls[q].escaped /\ calls[q].doc.error = None}

\* the diagrams the pipeline extracted from the file at path, one per page
ExtractedFrom(path) ==
    DiagramsOf(path, Metadata[path].model_name, Metadata[path].year,
               NumPages(path, file_ver[path]))

\* the sections the pipeline made of the file at path
SectionsOf(path) ==
    organize_by_section(extract_toc(path, {}),
                        clean_content(extract_page_content(path, file_ver[path], {})),
                        Metadata[path].year, Metadata[path].model_name, path)

\* C17: in process_pdf, the diagram extracted from the k-th page of a
\* document carries the document's (model, year, source) triple and the
\* page number k the sections use, and is attached to a record of the
\* returned document whose page range contains k.
C17_DiagramAttachedToItsSection ==
    \A q \in RanClean :
        \A k \in 1..Len(ExtractedFrom(q)) :
            LET d == ExtractedFrom(q)[k] IN
            (\E i \in 1..Len(SectionsOf(q)) : k \in PagesOf(SectionsOf(q)[i])) =>
                /\ \A i \in 1..Len(SectionsOf(q)) :
                      /\ d.model = SectionsOf(q)[i].model
                      /\ d.year = SectionsOf(q)[i].year
                      /\ d.source_pdf = SectionsOf(q)[i].source_pdf
                /\ d.page_number = k
                /\ \E i \in AttachedTo(calls[q].doc.drawings, d) :
                      k \in PagesOf(calls[q].doc.drawings[i])

-----------------------------------------------------------------------------
(* ImageExtractor._extract_diagram called on its own, for candidate boxes   *)
(* inside an image.                                                         *)

\* the widths and heights of the page images
ImageSides == {1200, 1600}
\* the corners and the sizes of the candidate boxes
BoxCorners == {0, 5, 14, 15, 16, 800, 1395}
\* (area above min_area, aspect ratio inside aspect_ratio_range)
BoxSides == {200, 300}

\* the images and, inside each, the boxes cv2.boundingRect can return
CropInputs ==
    {[cv_img |-> [w |-> W, h |-> H], diagram_info |-> [x |-> x, y |-> y, w |-> w, h |-> h]] :
        W \in ImageSides, H \in ImageSides, x \in BoxCorners, y \in BoxCorners,
        w \in BoxSides, h \in BoxSides}
    \ {a \in [cv_img : [w : ImageSides, h : ImageSides],
              diagram_info : [x : BoxCorners, y : BoxCorners, w : BoxSides, h : BoxSides]] :
          \/ a.diagram_info.x + a.diagram_info.w > a.cv_img.w
          \/ a.diagram_info.y + a.diagram_info.h > a.cv_img.h}

\* the call _extract_diagram(cv_img, diagram_info, model, year, page_num, count)
CropCall ==
    /\ fn_pc = "extract_diagram"
    /\ fn_ret' = DiagramDict(fn_args.cv_img, fn_args.diagram_info, "Monster", "2023", 0, 1)
    /\ fn_pc' = "returned"
    /\ UNCHANGED <<fn_args, metaVars, runVars>>

InitCrop ==
    /\ RunIdle
    /\ MetaIdle
    /\ fn_pc = "extract_diagram"
    /\ fn_args \in CropInputs
    /\ fn_ret = None

NextCrop == CropCall

SpecCrop == InitCrop /\ [][NextCrop]_vars

\* C18: the crop recorded for a candidate box (x, y, w, h) inside an image
\* of width W and height H is the box grown by the padding on each side and
\* clamped to the image: left = max(0, x - 15), top = max(0, y - 15),
\* right = min(W, x + w + 15), bottom = min(H, y + h + 15).
C18_CropIsPaddedBox ==
    fn_pc = "returned" =>
        LET b == fn_args.diagram_info
            img == fn_args.cv_img
        IN  /\ fn_ret.x = Max(0, b.x - Padding)
            /\ fn_ret.y = Max(0, b.y - Padding)
            /\ fn_ret.x + fn_ret.w = Min(img.w, b.x + b.w + Padding)
            /\ fn_ret.y + fn_ret.h = Min(img.h, b.y + b.h + Padding)

-----------------------------------------------------------------------------
(* ImageExtractor.extract_diagrams_from_pdf called on its own, for a        *)
(* document of at most MaxDocPages pages in which the rendering (or the     *)
(* preprocessing, or the detection) of some pages and the extraction of     *)
(* some diagrams fail.                                                      *)

RECURSIVE PageDiagrams(_, _, _, _, _, _)
\* the diagrams of the pages page_num .. n-1 (one candidate per page; a
\* diagram whose extraction fails is logged and skipped, lines 139-146)
PageDiagrams(path, model, year, page_num, n, bad_diagrams) ==
    IF page_num >= n THEN << >>
    ELSE (IF page_num \in bad_diagrams THEN << >>
          ELSE << DiagramDict(RasterOf(path, page_num), CandidateOf(path, page_num),
                              model, year, page_num, 1) >>)
         \o PageDiagrams(path, model, year, page_num + 1, n, bad_diagrams)

\* extract_diagrams_from_pdf: the failure of a page reaches the handler
\* around the whole loop, which logs it and raises it again (lines 148-150)
extract_diagrams_from_pdf(path, model, year, n, bad_pages, bad_diagrams) ==
    LET failing == {p \in bad_pages : p < n}
        stop == IF failing = {} THEN n
                ELSE CHOOSE p \in failing : \A q \in failing : p <= q
        done == PageDiagrams(path, model, year, 0, stop, bad_diagrams)
    IN  [raised |-> failing # {},
         drawings |-> IF failing # {} THEN << >> ELSE done,
         written |-> {done[k].image_path : k \in 1..Len(done)}]

\* the call extract_diagrams_from_pdf(doc, model, year, pdf_name)
DiagramsCall ==
    /\ fn_pc = "extract_diagrams_from_pdf"
    /\ fn_ret' = extract_diagrams_from_pdf(fn_args.pdf_name, fn_args.model, fn_args.year,
                                           fn_args.pages, fn_args.bad_pages,
                                           fn_args.bad_diagrams)
    /\ fn_pc' = "returned"
    /\ UNCHANGED <<fn_args, metaVars, runVars>>

InitDiagrams ==
    /\ RunIdle
    /\ MetaIdle
    /\ fn_pc = "extract_diagrams_from_pdf"
    /\ \E n \in 1..MaxDocPages :
          \E bp \in SUBSET (0..(n - 1)), bd \in SUBSET (0..(n - 1)) :
              fn_args = [pdf_name |-> FilePath(Pool[1]), model |-> "Monster",
                         year |-> "2023", pages |-> n, bad_pages |-> bp,
                         bad_diagrams |-> bd]
    /\ fn_ret = None

NextDiagrams == DiagramsCall

SpecDiagrams == InitDiagrams /\ [][NextDiagrams]_vars

\* C19: when the rendering of a page fails, extract_diagrams_from_pdf still
\* returns normally, with the diagrams of every page that did not fail
\* (those before and those after the failed page).
C19_PageFailureSkipsPageOnly ==
    (fn_pc = "returned" /\ fn_args.bad_pages # {}) =>
        /\ ~fn_ret.raised
        /\ \A p \in (0..(fn_args.pages - 1)) \ (fn_args.bad_pages \cup fn_args.bad_diagrams) :
              \E k \in 1..Len(fn_ret.drawings) : fn_ret.drawings[k].page_number = p

-----------------------------------------------------------------------------
(* save_results called on a MotoBot whose grouped_family was built by       *)
(* process_batch, and the output file read back (test_save_results).        *)

\* the keys process_batch can use: doc.family of the files of the pool
FamilyKeys == {Metadata[q].family : q \in PoolPaths}

\* the lists of an index: what test_save_results stores, up to MaxDrawings entries
IndexLists ==
    UNION {[1..n -> {"data1", "data2"}] : n \in 0..MaxDrawings}

\* the family-to-drawings indexes
Indexes == UNION {[K -> IndexLists] : K \in SUBSET FamilyKeys}

\* the name json.dump writes for a dict key: None becomes null, a str stays
JsonKey(k) == IF k = None THEN "null" ELSE k

\* json.dump(obj, f): the members of the JSON object written, each a name
\* and an array
json_dump(obj) == {[name |-> JsonKey(k), value |-> obj[k]] : k \in DOMAIN obj}

\* json.load(f): the dict of the JSON object, keyed by the member names
json_load(file) ==
    [n \in {m.name : m \in file} |-> (CHOOSE m \in file : m.name = n).value]

\* save_results: lines 284-287
SaveResults ==
    /\ fn_pc = "save_results"
    /\ fn_ret' = json_dump(fn_args.grouped_family)
    /\ fn_pc' = "saved"
    /\ UNCHANGED <<fn_args, metaVars, runVars>>

\* the output file is read back (test_save_results, lines 67-69)
ReadBack ==
    /\ fn_pc = "saved"
    /\ fn_ret' = json_load(fn_ret)
    /\ fn_pc' = "returned"
    /\ UNCHANGED <<fn_args, metaVars, runVars>>

InitSave ==
    /\ RunIdle
    /\ MetaIdle
    /\ fn_pc = "save_results"
    /\ \E g \in Indexes : fn_args = [grouped_family |-> g]
    /\ fn_ret = None

NextSave == SaveResults \/ ReadBack

SpecSave == InitSave /\ [][NextSave]_vars

\* C20: the mapping read back from the output file equals grouped_family:
\* the same keys, and under each key the same list.
C20_SaveResultsRoundTrip ==
    fn_pc = "returned" =>
        /\ DOMAIN fn_ret = DOMAIN fn_args.grouped_family
        /\ \A k \in DOMAIN fn_args.grouped_family : fn_ret[k] = fn_args.grouped_family[k]

-----------------------------------------------------------------------------
(* What process_pdf returns when no stage raises (Spec).                    *)

\* C21: when process_pdf returns and no stage raised, the document's family,
\* year and model are the family, year and model_name extract_metadata
\* gives for the file's name, its error is None and its file_path the path.
C21_DocumentCarriesMetadata ==
    \A q \in PoolPaths :
        (calls[q].called /\ ~calls[q].escaped /\ FirstRaise(calls[q].F) = "none") =>
            LET metadata == Metadata[q] IN
            /\ calls[q].doc.family = metadata.family
            /\ calls[q].doc.year = metadata.year
            /\ calls[q].doc.model = metadata.model_name
            /\ calls[q].doc.error = None
            /\ calls[q].doc.file_path = q

\* C21 witness: the pipeline ran without any failure for a file with a
\* known family and for one whose model name differs from its family.
C21_Witness ==
    \E q \in PoolPaths :
        /\ calls[q].called /\ calls[q].ran /\ calls[q].F = {}
        /\ calls[q].doc.family = "Diavel"
        /\ calls[q].doc.year = "2016"
        /\ calls[q].doc.model # calls[q].doc.family

-----------------------------------------------------------------------------
(* Which family extract_metadata picks (SpecMeta).                          *)

\* the positions in the family list of the families that occur in s
ListedIn(s) == {k \in 1..Len(ducati_families) : Contains(s, ducati_families[k])}

\* C22: when several known family names occur in the cleaned file name,
\* extract_metadata returns the one that stands first in the family list,
\* whatever its length and its place in the name.
C22_FirstListedFamily ==
    (m_pc = "done" /\ m_name # None) =>
        \A k \in ListedIn(m_cleaned) :
            (\A j \in ListedIn(m_cleaned) : k <= j) =>
                m_result.family = ducati_families[k]

\* C22 witness: a name with 'XDiavel' yields 'Diavel'.
C22_Witness ==
    /\ m_pc = "done"
    /\ m_name # None
    /\ Contains(m_cleaned, "XDiavel")
    /\ Cardinality(ListedIn(m_cleaned)) >= 2
    /\ m_result.family = "Diavel"

-----------------------------------------------------------------------------
(* Where the windows of _chunk_section start (SpecChunk).                   *)

\* the section of the call is split: it has at least min_chunk_size words
IsSplit == fn_pc = "returned" /\ Len(ArgWords) >= fn_args.self.min_chunk_size

\* the step from one window start to the next
Stride(self) == self.max_words - self.overlap_words

\* C23: the k-th chunk returned for a split section (k = 0, 1, ...) holds
\* the words of the section from offset k * (max_words - overlap_words) on,
\* whether or not the chunk before it was trimmed.
C23_WindowStartsFixed ==
    IsSplit =>
        \A k \in 1..Len(fn_ret) :
            /\ (k - 1) * Stride(fn_args.self) + fn_ret[k].word_count <= Len(ArgWords)
            /\ word_tokenize(fn_ret[k].chunk_text)
                  = SubSeq(ArgWords, (k - 1) * Stride(fn_args.self) + 1,
                           (k - 1) * Stride(fn_args.self) + fn_ret[k].word_count)

\* C23 witness: a chunk that was trimmed by more than overlap_words words
\* is followed by another chunk.
C23_Witness ==
    /\ IsSplit
    /\ \E k \in 1..(Len(fn_ret) - 1) :
          /\ (k - 1) * Stride(fn_args.self) + fn_args.self.max_words < Len(ArgWords)
          /\ fn_ret[k].word_count + fn_args.self.overlap_words < fn_args.self.max_words
          /\ fn_ret[k + 1].word_count >= 2

-----------------------------------------------------------------------------
(* Sections and chunks in the per-file pipeline (Spec).                     *)

\* the sections of the file at path that have text
TextSections(path) ==
    {i \in 1..Len(SectionsOf(path)) : SectionsOf(path)[i].text # ""}

\* C24: when process_pdf ran the whole pipeline on a file and nothing
\* failed, every section the segmenter returned with a non-empty text has
\* at least one chunk in the content of the returned document.
C24_SectionsReachContent ==
    \A q \in RanClean :
        \A i \in TextSections(q) :
            \E k \in 1..Len(calls[q].doc.content) :
                /\ calls[q].doc.content[k].heading = SectionsOf(q)[i].heading
                /\ calls[q].doc.content[k].start_page = SectionsOf(q)[i].start_page

-----------------------------------------------------------------------------
(* TextChunker.chunk called on its own with a list of sections, some of     *)
(* which make _chunk_section raise (SpecChunkList).                         *)

\* how many sections the list has at most
MaxSections == 3

\* the headings of the sections, by position in the list
HeadingAt == <<"Intro", "Specs", "Index", "Notes">>

\* what the section at position i can be: a dict with one of three texts,
\* or a PDFSection object, on which section_data["text"] raises
SectionsAt(i) ==
    {[SectionDict(t) EXCEPT !.heading = HeadingAt[i]] :
        t \in {"", "check oil", "check oil level. then close cap now"}}
    \cup {PDFSection(HeadingAt[i], 1, 2, "check oil", "Monster", "2023",
                     FilePath(Pool[1]))}

RECURSIVE SectionLists(_)
\* the lists of k sections
SectionLists(k) ==
    IF k = 0 THEN {<< >>}
    ELSE {Append(l, sec) : l \in SectionLists(k - 1), sec \in SectionsAt(k)}

\* the call chunker.chunk(sections)
ChunkListCall ==
    /\ fn_pc = "chunk_list"
    /\ fn_ret' = chunk(fn_args.self, fn_args.content)
    /\ fn_pc' = "returned"
    /\ UNCHANGED <<fn_args, metaVars, runVars>>

InitChunkList ==
    /\ RunIdle
    /\ MetaIdle
    /\ fn_pc = "chunk_list"
    /\ \E c \in {TextChunker(3, 1, 2), TextChunker(2, 0, 1)},
          l \in UNION {SectionLists(k) : k \in 0..MaxSections} :
          fn_args = [self |-> c, content |-> l]
    /\ fn_ret = None

NextChunkList == ChunkListCall

SpecChunkList == InitChunkList /\ [][NextChunkList]_vars

\* the position in the list of the section a chunk was made of
SectionIndexOf(c) == CHOOSE i \in 1..Len(HeadingAt) : HeadingAt[i] = c.heading

\* the chunks of the result made of the section at position i, in order
ChunksFrom(i) == SelectSeq(fn_ret, LAMBDA c : c.heading = HeadingAt[i])

\* C25: chunk(sections) returns a list whatever the sections are; a section
\* on which _chunk_section raises has no chunk in it, every other section
\* has exactly the chunks _chunk_section returns for it, and the chunks of
\* an earlier section come before those of a later one.
C25_FailingSectionSkipped ==
    fn_pc = "returned" =>
        /\ \A i \in 1..Len(fn_args.content) :
              ChunksFrom(i) =
                  IF SubscriptRaises(fn_args.content[i]) THEN << >>
                  ELSE chunk_section(fn_args.self, fn_args.content[i])
        /\ \A k \in 1..Len(fn_ret) : SectionIndexOf(fn_ret[k]) <= Len(fn_args.content)
        /\ \A k \in 1..Len(fn_ret), l \in 1..Len(fn_ret) :
              k < l => SectionIndexOf(fn_ret[k]) <= SectionIndexOf(fn_ret[l])

\* C25 witness: a section that raises stands between two sections that are
\* split, and the result has the chunks of both.
C25_Witness ==
    /\ fn_pc = "returned"
    /\ Len(fn_args.content) = 3
    /\ SubscriptRaises(fn_args.content[2])
    /\ Len(ChunksFrom(1)) >= 2
    /\ Len(ChunksFrom(3)) >= 2
    /\ ChunksFrom(2) = << >>

-----------------------------------------------------------------------------
(* ImageExtractor._find_diagrams and the numbering of its candidates in     *)
(* extract_diagrams_from_pdf, for the contours of one page (SpecFind).      *)

\* how many contours cv2.findContours returns for the page at most
MaxContours == 3

\* self.min_area
MinArea == 30000
\* self.aspect_ratio_range, each end as a fraction
AspectRatioRange == << [num |-> 1, den |-> 2], [num |-> 2, den |-> 1] >>

\* the areas cv2.contourArea returns and the boxes cv2.boundingRect returns
ContourAreas == {30000, 30001, 45000}
ContourBoxes == {[w |-> 200, h |-> 400], [w |-> 300, h |-> 400],
                 [w |-> 400, h |-> 200], [w |-> 400, h |-> 300]}

RECURSIVE ContourLists(_)
\* the lists of k contours; cnt tells the contours of a list apart
ContourLists(k) ==
    IF k = 0 THEN {<< >>}
    ELSE {Append(l, [cnt |-> k, area |-> a, x |-> 10, y |-> 20, w |-> b.w, h |-> b.h]) :
             l \in ContourLists(k - 1), a \in ContourAreas, b \in ContourBoxes}

\* lo < float(w) / h < hi (line 72), the quotient compared exactly
InAspectRange(w, h) ==
    /\ AspectRatioRange[1].num * h < w * AspectRatioRange[1].den
    /\ w * AspectRatioRange[2].den < AspectRatioRange[2].num * h

\* A mutant: a contour of area min_area is a candidate too.
IsCandidate_AtLeast(c) == c.area >= MinArea /\ InAspectRange(c.w, c.h)

\* lines 69-74: is the contour appended to potential_diagrams
IsCandidate(c) == c.area > MinArea /\ InAspectRange(c.w, c.h)

\* the dict appended for a contour (lines 75-78)
Candidate(c) ==
    [x |-> c.x, y |-> c.y, w |-> c.w, h |-> c.h, area |-> c.area, contour |-> c.cnt]

RECURSIVE InsertByArea(_, _)
\* d put into a list sorted by area, largest first, behind the entries of
\* the same area
InsertByArea(sorted, d) ==
    IF sorted = << >> THEN << d >>
    ELSE IF Head(sorted).area >= d.area
         THEN << Head(sorted) >> \o InsertByArea(Tail(sorted), d)
         ELSE << d >> \o sorted

RECURSIVE SortedByArea(_)
\* sorted(potential_diagrams, key=area, reverse=True): stable
SortedByArea(l) ==
    IF l = << >> THEN << >>
    ELSE InsertByArea(SortedByArea(SubSeq(l, 1, Len(l) - 1)), l[Len(l)])

\* ImageExtractor._find_diagrams on the contours of a page
find_diagrams(contours) ==
    SortedByArea([k \in 1..Len(SelectSeq(contours, IsCandidate)) |->
                     Candidate(SelectSeq(contours, IsCandidate)[k])])

\* enumerate(potential_diagrams, 1) in extract_diagrams_from_pdf (line 138)
Numbered(potential_diagrams) ==
    [k \in 1..Len(potential_diagrams) |->
        [count |-> k, diagram_info |-> potential_diagrams[k]]]

\* one page of extract_diagrams_from_pdf: the candidates found and numbered
FindCall ==
    /\ fn_pc = "find_diagrams"
    /\ fn_ret' = Numbered(find_diagrams(fn_args.contours))
    /\ fn_pc' = "returned"
    /\ UNCHANGED <<fn_args, metaVars, runVars>>

InitFind ==
    /\ RunIdle
    /\ MetaIdle
    /\ fn_pc = "find_diagrams"
    /\ \E l \in UNION {ContourLists(k) : k \in 0..MaxContours} :
          fn_args = [contours |-> l]
    /\ fn_ret = None

NextFind == FindCall

SpecFind == InitFind /\ [][NextFind]_vars

\* the contours of the call that are among the numbered candidates
KeptContours == {fn_ret[k].diagram_info.contour : k \in 1..Len(fn_ret)}

\* C26: the candidates of a page are exactly its contours with an area
\* above 30000 and a bounding box with 0.5 < w / h < 2.0, each once; they
\* are numbered 1, 2, ... and a lower number never has a smaller area.
C26_CandidatesFilteredAndOrdered ==
    fn_pc = "returned" =>
        /\ KeptContours =
              {i \in 1..Len(fn_args.contours) :
                  /\ fn_args.contours[i].area > 30000
                  /\ fn_args.contours[i].h < 2 * fn_args.contours[i].w
                  /\ fn_args.contours[i].w < 2 * fn_args.contours[i].h}
        /\ Len(fn_ret) = Cardinality(KeptContours)
        /\ \A k \in 1..Len(fn_ret) :
              /\ fn_ret[k].count = k
              /\ fn_ret[k].diagram_info.area
                    = fn_args.contours[fn_ret[k].diagram_info.contour].area
        /\ \A k \in 1..Len(fn_ret), l \in 1..Len(fn_ret) :
              k < l => fn_ret[k].diagram_info.area >= fn_ret[l].diagram_info.area

\* C26 witness: of three contours one is dropped for its area of exactly
\* 30000, and the two kept come back in the other order, larger first.
C26_Witness ==
    /\ fn_pc = "returned"
    /\ Len(fn_args.contours) = 3
    /\ \E i \in 1..3 : /\ fn_args.contours[i].area = 30000
                       /\ InAspectRange(fn_args.contours[i].w, fn_args.contours[i].h)
    /\ Len(fn_ret) = 2
    /\ fn_ret[1].diagram_info.contour > fn_ret[2].diagram_info.contour
    /\ fn_ret[1].diagram_info.area > fn_ret[2].diagram_info.area

-----------------------------------------------------------------------------
(* SpecRetry: one MotoBot whose process_pdf is called for the same file     *)
(* again and again, calls failing and cache operations failing in between.  *)

\* how many process_pdf calls the caller makes
MaxRetryCalls == 3
\* how many operations fail in one run
MaxRetryFaults == 2

\* the operations that fail in these runs
RetryFaults == {"cache_exists", "cache_read", "cache_write", "open", "diagrams"}

\* process_pdf(path); the record of the call keeps that of the call before
RetryCall(path, F) ==
    /\ pc = "retry"
    /\ n_calls < MaxRetryCalls
    /\ LET r == ProcessPdf(bot.stats, cache_enabled, cache, path, file_ver[path], F)
       IN  /\ bot' = [bot EXCEPT !.stats = r.stats]
           /\ cache' = r.store
           /\ images' = images \cup {ImageFile(ip, path, 0, {}) : ip \in r.written}
           /\ calls' = [calls EXCEPT ![path] =
                           ("before" :> calls[path])
                           @@ CallRecord(F, bot.stats, cache, path, r)]
    /\ n_calls' = n_calls + 1
    /\ faults_left' = faults_left - Cardinality(F)
    /\ UNCHANGED <<metaVars, fnVars, pdf_files, file_ver, cache_enabled, pc, task, collected,
                   stats_file>>

InitRetry ==
    /\ MetaIdle
    /\ FnIdle
    /\ pdf_files = << FilePath(Pool[1]) >>
    /\ file_ver = [q \in PoolPaths |-> 0]
    /\ cache_enabled \in BOOLEAN
    /\ cache = [c \in {CachePath(q) : q \in PoolPaths} |-> NoEntry]
    /\ images = {}
    /\ bot = MotoBot
    /\ pc = "retry"
    /\ task = << >>
    /\ collected = {}
    /\ faults_left = MaxRetryFaults
    /\ calls = [q \in PoolPaths |-> NoCall]
    /\ stats_file = None
    /\ n_calls = 0

NextRetry ==
    \E i \in DOMAIN pdf_files :
        \E F \in {G \in SUBSET RetryFaults : Cardinality(G) <= faults_left} :
            RetryCall(pdf_files[i], F)

SpecRetry == InitRetry /\ [][NextRetry]_vars

\* the call of the record returned a document with an error
FailedCall(rec) == rec.called /\ ~rec.escaped /\ rec.doc.error # None

\* every cache entry holds a document with error null, and the last call
\* for a file wrote the cache only if it returned a document without error
CacheHoldsSuccessesOnly ==
    /\ \A q \in PoolPaths :
          cache[CachePath(q)] # NoEntry => cache[CachePath(q)].error = None
    /\ \A q \in PoolPaths :
          (calls[q].called /\ calls[q].wrote) =>
              (~calls[q].escaped /\ calls[q].doc.error = None)

-----------------------------------------------------------------------------
(* How many chunks _chunk_section returns, and their numbering (SpecChunk). *)

\* ceil(n / d) for d > 0
CeilDiv(n, d) == (n + d - 1) \div d

\* C28: for a section with n >= min_chunk_size words and overlap_words <
\* max_words, the call returns, with exactly ceil(n / (max_words -
\* overlap_words)) chunks, one per window; each window starts further into
\* the section than the one before: the k-th starts with the word at offset
\* k * (max_words - overlap_words).
C28_ChunkCount ==
    IsSplit =>
        /\ Len(fn_ret) = CeilDiv(Len(ArgWords), Stride(fn_args.self))
        /\ \A k \in 1..Len(fn_ret) :
              /\ (k - 1) * Stride(fn_args.self) < Len(ArgWords)
              /\ Head(word_tokenize(fn_ret[k].chunk_text))
                    = ArgWords[(k - 1) * Stride(fn_args.self) + 1]

\* C28 witness: with an overlap, a section gives three chunks or more, more
\* than windows of max_words words side by side would be.
C28_Witness ==
    /\ IsSplit
    /\ fn_args.self.overlap_words > 0
    /\ Len(fn_ret) >= 3
    /\ Len(fn_ret) > CeilDiv(Len(ArgWords), fn_args.self.max_words)

\* C30: the chunks of a split section carry chunk_index 0, 1, 2, ... in the
\* order returned and all the same total_chunks = ceil(n / max_words), and
\* every chunk has chunk_index < total_chunks.
C30_ChunkIndexBelowTotal ==
    IsSplit =>
        \A k \in 1..Len(fn_ret) :
            /\ fn_ret[k].chunk_index = k - 1
            /\ fn_ret[k].total_chunks = CeilDiv(Len(ArgWords), fn_args.self.max_words)
            /\ fn_ret[k].chunk_index < fn_ret[k].total_chunks

-----------------------------------------------------------------------------
(* The statistics of the process that runs process_batch (Spec).            *)

\* C29: in every pool task, after each file of its batch, processed_files +
\* failed_files = total_files = the number of files handled, and errors has
\* one entry per failed file, whether process_pdf returned an error document
\* or raised.
C29_TaskStatsBalanced ==
    \A b \in DOMAIN task :
        LET stats == task[b].self.stats IN
        /\ stats.total_files = task[b].idx
        /\ stats.processed_files + stats.failed_files = stats.total_files
        /\ Len(stats.errors) = stats.failed_files

\* C29 witness: a task has handled two files, one processed and one failed
\* by an exception that left process_pdf.
C29_Witness ==
    \E b \in DOMAIN task :
        /\ task[b].idx = 2
        /\ task[b].self.stats.processed_files = 1
        /\ task[b].self.stats.failed_files = 1
        /\ Len(task[b].self.stats.errors) = 1
        /\ \E k \in 1..2 : calls[task[b].files[k]].called
                           /\ calls[task[b].files[k]].escaped

\* a task has handled two files, one processed and one for which
\* process_pdf returned an error document
C29_CapturedFailureSeen ==
    \E b \in DOMAIN task :
        /\ task[b].idx = 2
        /\ task[b].self.stats.processed_files = 1
        /\ task[b].self.stats.failed_files = 1
        /\ \E k \in 1..2 : calls[task[b].files[k]].called
                           /\ ~calls[task[b].files[k]].escaped
                           /\ calls[task[b].files[k]].doc.error # None

====
